---------------------------- MODULE Spec2Model ----------------------------
(***************************************************************************)
(* The three self-normalising value types of src/src/lib.rs:               *)
(* UnipolarFloat (clamped to [0, 1]), BipolarFloat (clamped to [-1, 1])    *)
(* and Phase (wrapped by euclidean modulus 1.0).                           *)
(*                                                                         *)
(* Every type wraps one f64.  The f64 is modelled as a binary floating-    *)
(* point format of the IEEE 754 shape (Prec significand bits, exponents    *)
(* 1-EMax .. EMax, gradual underflow, round to nearest even, overflow to   *)
(* infinity, NaN).  A finite value is held as the integer count of the     *)
(* smallest subnormal it is made of, so that sums, products and quotients  *)
(* are computed exactly and then rounded the way the hardware rounds.      *)
(* Signed zero is not modelled: -0.0 == 0.0 in every comparison the code   *)
(* makes, and the one place a zero's sign decides a result (x / -0.0 is    *)
(* -inf, not +inf) is wrapped to NaN by rem_euclid either way.             *)
(*                                                                         *)
(* Modelled: every constructor, constant and operator that yields one of   *)
(* the three types, and the derived Deserialize.  The operators that yield *)
(* a bare f64 (UnipolarFloat * f64, f64 * BipolarFloat, From<_> for f64),  *)
(* the comparisons and Display yield no value of the three types and are   *)
(* left out.                                                               *)
(***************************************************************************)
EXTENDS Integers, FiniteSets

\* Significand bits of the modelled format (f64: 53).
Prec == 3
\* Largest binary exponent of the modelled format (f64: 1023).
EMax == 4

-----------------------------------------------------------------------------
(* The floating-point format *)

\* Smallest normal exponent: IEEE 754 sets emin = 1 - emax.
EMin == 1 - EMax

\* The quantum of a value is 2^k smallest subnormals, k in 0 .. QMax.
QMax == EMax - EMin

\* 1.0, counted in smallest subnormals (2^(EMin - Prec + 1) each).
OneN == 2 ^ (Prec - 1 - EMin)

\* f64::MAX: the largest finite value.
MaxFin == (2 ^ Prec - 1) * 2 ^ QMax

\* f64::INFINITY and f64::NEG_INFINITY, ordered beyond every finite value.
Inf == MaxFin + 1
NegInf == -Inf

\* f64::NAN: never ordered, never equal; every comparison tests for it first.
NaN == MaxFin + 2

IsNaN(a) == a = NaN

IsFinite(a) == a >= -MaxFin /\ a <= MaxFin

Abs(n) == IF n < 0 THEN -n ELSE n

\* n is a value of the format: a significand below 2^Prec times a quantum.
Representable(n) ==
    \E k \in 0..QMax : Abs(n) % (2 ^ k) = 0 /\ Abs(n) \div (2 ^ k) < 2 ^ Prec

\* Every finite f64.
Finite == {n \in -MaxFin..MaxFin : Representable(n)}

\* Every f64.
F64 == Finite \cup {Inf, NegInf, NaN}

\* n / d (n >= 0, d > 0) rounded to the nearest integer, ties to even.
RoundHalfEven(n, d) ==
    LET q == n \div d
        r == n % d
    IN  IF 2 * r > d \/ (2 * r = d /\ q % 2 = 1) THEN q + 1 ELSE q

\* The quantum exponent of n / d (n >= 0, d > 0): the least k that leaves a
\* significand below 2^Prec, capped at the largest exponent.
Quantum(n, d) ==
    IF n >= 2 ^ (Prec + QMax) * d THEN QMax
    ELSE CHOOSE k \in 0..QMax :
            /\ n < 2 ^ (Prec + k) * d
            /\ (k = 0 \/ n >= 2 ^ (Prec + k - 1) * d)

\* n / d (n >= 0, d > 0) rounded to the format; past f64::MAX it is infinity.
RoundMag(n, d) ==
    LET k == Quantum(n, d)
        v == RoundHalfEven(n, d * 2 ^ k) * 2 ^ k
    IN  IF v > MaxFin THEN Inf ELSE v

\* num / den (den > 0) rounded to the format, round to nearest even.
Round(num, den) ==
    IF num < 0 THEN -RoundMag(-num, den) ELSE RoundMag(num, den)

\* a < b on f64: false when either is NaN.
FLt(a, b) == ~IsNaN(a) /\ ~IsNaN(b) /\ a < b

\* a <= b on f64: false when either is NaN.
FLe(a, b) == ~IsNaN(a) /\ ~IsNaN(b) /\ a <= b

\* -a on f64.
FNeg(a) == IF IsNaN(a) THEN NaN ELSE -a

\* f64::abs.
FAbs(a) == IF IsNaN(a) THEN NaN ELSE Abs(a)

\* a + b on f64.
FAdd(a, b) ==
    IF IsNaN(a) \/ IsNaN(b) THEN NaN
    ELSE IF ~IsFinite(a) THEN (IF ~IsFinite(b) /\ a # b THEN NaN ELSE a)
    ELSE IF ~IsFinite(b) THEN b
    ELSE Round(a + b, 1)

\* a - b on f64.
FSub(a, b) == FAdd(a, FNeg(b))

\* a * b on f64.
FMul(a, b) ==
    IF IsNaN(a) \/ IsNaN(b) THEN NaN
    ELSE IF ~IsFinite(a) \/ ~IsFinite(b)
         THEN (IF a = 0 \/ b = 0 THEN NaN
               ELSE IF (a < 0) = (b < 0) THEN Inf ELSE NegInf)
    ELSE Round(a * b, OneN)

\* a / b on f64.
FDiv(a, b) ==
    IF IsNaN(a) \/ IsNaN(b) THEN NaN
    ELSE IF ~IsFinite(a)
         THEN (IF ~IsFinite(b) THEN NaN
               ELSE IF (a < 0) = (b < 0) THEN Inf ELSE NegInf)
    ELSE IF ~IsFinite(b) THEN 0
    ELSE IF b = 0
         THEN (IF a = 0 THEN NaN ELSE IF a > 0 THEN Inf ELSE NegInf)
    ELSE IF b < 0 THEN Round(-(a * OneN), -b)
    ELSE Round(a * OneN, b)

\* a % b on f64 (fmod): exact, with the sign of a.
FRem(a, b) ==
    IF IsNaN(a) \/ IsNaN(b) \/ ~IsFinite(a) \/ b = 0 THEN NaN
    ELSE IF ~IsFinite(b) THEN a
    ELSE IF a < 0 THEN -((-a) % Abs(b)) ELSE a % Abs(b)

\* f64::max: the other argument when one is NaN.
FMax(a, b) ==
    IF IsNaN(a) THEN b ELSE IF IsNaN(b) THEN a ELSE IF a > b THEN a ELSE b

\* f64::min: the other argument when one is NaN.
FMin(a, b) ==
    IF IsNaN(a) THEN b ELSE IF IsNaN(b) THEN a ELSE IF a < b THEN a ELSE b

\* f64::rem_euclid: r = self % rhs; if r < 0.0 { r + rhs.abs() } else { r }.
RemEuclid(a, rhs) ==
    LET r == FRem(a, rhs)
    IN  IF FLt(r, 0) THEN FAdd(r, FAbs(rhs)) ELSE r

-----------------------------------------------------------------------------
(* The shared clamp helper *)

\* clamp with min and max applied in the wrong order of bounds.
clamp_swapped(v, min, max) == FMax(FMin(v, min), max)

\* fn clamp(v: &mut f64, min: f64, max: f64): *v = f64::min(f64::max(*v, min), max).
clamp(v, min, max) == FMin(FMax(v, min), max)

-----------------------------------------------------------------------------
(* UnipolarFloat *)

\* UnipolarFloat::ZERO = Self(0.0).
UnipolarFloat_ZERO == 0

\* UnipolarFloat::ONE = Self(1.0).
UnipolarFloat_ONE == OneN

\* #[derive(Default)]: Self(f64::default()) = Self(0.0).
UnipolarFloat_default == 0

\* UnipolarFloat::clamp: clamp(&mut self.0, 0.0, 1.0).
UnipolarFloat_clamp(v) == clamp(v, 0, OneN)

\* UnipolarFloat::new: Self(v), then clamp.
UnipolarFloat_new(v) == UnipolarFloat_clamp(v)

\* UnipolarFloat::val: self.0.
UnipolarFloat_val(self) == self

\* UnipolarFloat::invert: Self(1.0 - self.0), not clamped.
UnipolarFloat_invert(self) == FSub(OneN, self)

\* impl Mul for UnipolarFloat: Self(self.0 * rhs.0), not clamped.
UnipolarFloat_mul(self, rhs) == FMul(self, rhs)

\* impl MulAssign for UnipolarFloat: self.0 *= rhs.val(), not clamped.
UnipolarFloat_mul_assign(self, rhs) == FMul(self, UnipolarFloat_val(rhs))

\* The difference built without new: Self(self.0 - rhs.0).
UnipolarFloat_sub_unclamped(self, rhs) == FSub(self, rhs)

\* impl Sub for UnipolarFloat: Self::new(self.0 - rhs.0).
UnipolarFloat_sub(self, rhs) == UnipolarFloat_new(FSub(self, rhs))

\* impl Add for UnipolarFloat: Self::new(self.val() + rhs.val()).
UnipolarFloat_add(self, rhs) ==
    UnipolarFloat_new(FAdd(UnipolarFloat_val(self), UnipolarFloat_val(rhs)))

\* The sum stored without new: self.0 += rhs.
UnipolarFloat_add_assign_f64_unclamped(self, rhs) == FAdd(self, rhs)

\* impl AddAssign<f64> for UnipolarFloat: *self = Self::new(self.0 + rhs).
UnipolarFloat_add_assign_f64(self, rhs) == UnipolarFloat_new(FAdd(self, rhs))

\* impl AddAssign for UnipolarFloat: *self += rhs.val().
UnipolarFloat_add_assign(self, rhs) ==
    UnipolarFloat_add_assign_f64(self, UnipolarFloat_val(rhs))

\* #[derive(Deserialize)] on the newtype: the decoded f64 becomes the field
\* as it is; neither new nor clamp is called.
UnipolarFloat_deserialize(n) == n

-----------------------------------------------------------------------------
(* BipolarFloat *)

\* BipolarFloat::ZERO = Self(0.0).
BipolarFloat_ZERO == 0

\* BipolarFloat::ONE = Self(1.0).
BipolarFloat_ONE == OneN

\* #[derive(Default)]: Self(0.0).
BipolarFloat_default == 0

\* BipolarFloat::clamp: clamp(&mut self.0, -1.0, 1.0).
BipolarFloat_clamp(v) == clamp(v, -OneN, OneN)

\* BipolarFloat::new: Self(v), then clamp.
BipolarFloat_new(v) == BipolarFloat_clamp(v)

\* BipolarFloat::val: self.0.
BipolarFloat_val(self) == self

\* BipolarFloat::abs: UnipolarFloat(self.0.abs()), not clamped.
BipolarFloat_abs(self) == FAbs(self)

\* BipolarFloat::invert: Self(-1.0 * self.0), not clamped.
BipolarFloat_invert(self) == FMul(-OneN, self)

\* BipolarFloat::invert_if: self.invert() when the flag is set, else *self.
BipolarFloat_invert_if(self, invert) ==
    IF invert THEN BipolarFloat_invert(self) ELSE self

\* impl Mul<UnipolarFloat> for BipolarFloat: Self(self.0 * rhs.0), not clamped.
BipolarFloat_mul_unipolar(self, rhs) == FMul(self, rhs)

\* impl Mul for BipolarFloat: Self(self.0 * rhs.0), not clamped.
BipolarFloat_mul(self, rhs) == FMul(self, rhs)

\* impl Sub for BipolarFloat: Self::new(self.0 - rhs.0).
BipolarFloat_sub(self, rhs) == BipolarFloat_new(FSub(self, rhs))

\* The sum built without new: Self(self.val() + rhs.val()).
BipolarFloat_add_unclamped(self, rhs) == FAdd(self, rhs)

\* impl Add for BipolarFloat: Self::new(self.val() + rhs.val()).
BipolarFloat_add(self, rhs) ==
    BipolarFloat_new(FAdd(BipolarFloat_val(self), BipolarFloat_val(rhs)))

\* impl AddAssign<f64> for BipolarFloat: *self = Self::new(self.0 + rhs).
BipolarFloat_add_assign_f64(self, rhs) == BipolarFloat_new(FAdd(self, rhs))

\* impl AddAssign for BipolarFloat: *self += rhs.val().
BipolarFloat_add_assign(self, rhs) ==
    BipolarFloat_add_assign_f64(self, BipolarFloat_val(rhs))

\* #[derive(Deserialize)] on the newtype: the decoded f64 becomes the field.
BipolarFloat_deserialize(n) == n

-----------------------------------------------------------------------------
(* Phase *)

\* Phase::ZERO = Self(0.0).
Phase_ZERO == 0

\* Phase::ONE = Self(1.0): built without wrap.
Phase_ONE == OneN

\* #[derive(Default)]: Self(0.0).
Phase_default == 0

\* wrap with the truncating remainder: self.0 = self.0 % 1.0.
Phase_wrap_truncating(v) == FRem(v, OneN)

\* Phase::wrap: self.0 = self.0.rem_euclid(1.0).
Phase_wrap(v) == RemEuclid(v, OneN)

\* Phase::new: Self(v), then wrap.
Phase_new(v) == Phase_wrap(v)

\* Phase::val: self.0.
Phase_val(self) == self

\* Phase addition that saturates as the clamped types do, instead of wrapping.
Phase_add_saturating(self, rhs) == clamp(FAdd(self, rhs), 0, OneN)

\* impl Add<Phase> for Phase: Self::new(self.0 + rhs.0).
Phase_add(self, rhs) == Phase_new(FAdd(self, rhs))

\* impl Add<f64> for Phase: Self::new(self.0 + rhs).
Phase_add_f64(self, rhs) == Phase_new(FAdd(self, rhs))

\* impl AddAssign<Phase> for Phase: *self = *self + rhs.
Phase_add_assign(self, rhs) == Phase_add(self, rhs)

\* impl AddAssign<f64> for Phase: *self = *self + rhs.
Phase_add_assign_f64(self, rhs) == Phase_add_f64(self, rhs)

\* The unwrapped result built with / where * is meant.
Phase_mul_unipolar_dividing(self, v) == FDiv(self, UnipolarFloat_val(v))

\* impl Mul<UnipolarFloat> for Phase: Self(self.0 * v.val()), not wrapped.
Phase_mul_unipolar(self, v) == FMul(self, UnipolarFloat_val(v))

\* impl Mul<f64> for Phase: Self::new(self.0 * v).
Phase_mul_f64(self, v) == Phase_new(FMul(self, v))

\* impl Div<UnipolarFloat> for Phase: Self::new(self.0 / v.val()).
Phase_div(self, v) == Phase_new(FDiv(self, UnipolarFloat_val(v)))

\* #[derive(Deserialize)] on the newtype: the decoded f64 becomes the field.
Phase_deserialize(n) == n

-----------------------------------------------------------------------------
(* The state machine: a caller holding one value and calling the API on it *)

VARIABLES
    ty,     \* the type of the value the caller holds
    acc,    \* its inner f64
    op,     \* the call under observation, "none" while none is
    x,      \* the observed call's left operand (self)
    y,      \* the observed call's right operand or raw argument
    sum,    \* SpecSum: the exact sum v0 + d_1 + .. + d_n, modulo 1.0
    exact,  \* SpecSum: no f64 addition of the chain has rounded yet
    wraps   \* SpecSum: the additions that crossed the 0.0/1.0 boundary

vars == <<ty, acc, op, x, y, sum, exact, wraps>>

\* The UnipolarFloat values a caller can hand to an operator as its operand:
\* a constant, or new of a raw value of R.
UnipolarOperands(R) ==
    {UnipolarFloat_new(v) : v \in R}
        \cup {UnipolarFloat_ZERO, UnipolarFloat_ONE, UnipolarFloat_default}

BipolarOperands(R) ==
    {BipolarFloat_new(v) : v \in R}
        \cup {BipolarFloat_ZERO, BipolarFloat_ONE, BipolarFloat_default}

PhaseOperands(R) ==
    {Phase_new(v) : v \in R} \cup {Phase_ZERO, Phase_ONE, Phase_default}

\* Every value starts as its type's Default.
Init ==
    /\ ty \in {"UnipolarFloat", "BipolarFloat", "Phase"}
    /\ acc = 0
    /\ op = "none"
    /\ x = 0
    /\ y = 0
    /\ sum = 0
    /\ exact = TRUE
    /\ wraps = 0

\* One call: the caller now holds res, of type t.  A run is any number of
\* calls followed by at most one observed call, whose operands l and r are
\* recorded with its name.
Call(name, t, l, r, res) ==
    /\ op = "none"
    /\ ty' = t
    /\ acc' = res
    /\ \/ op' = name /\ x' = l /\ y' = r
       \/ UNCHANGED <<op, x, y>>
    /\ UNCHANGED <<sum, exact, wraps>>

(* UnipolarFloat *)

UnipolarNew(R) ==
    /\ op = "none"
    /\ \E v \in R :
           Call("UnipolarFloat::new", "UnipolarFloat", 0, v,
                UnipolarFloat_new(v))

UnipolarConst ==
    /\ op = "none"
    /\ \/ Call("UnipolarFloat::ZERO", "UnipolarFloat", 0, 0, UnipolarFloat_ZERO)
       \/ Call("UnipolarFloat::ONE", "UnipolarFloat", 0, 0, UnipolarFloat_ONE)
       \/ Call("UnipolarFloat::default", "UnipolarFloat", 0, 0,
               UnipolarFloat_default)

UnipolarInvert ==
    /\ ty = "UnipolarFloat"
    /\ Call("UnipolarFloat::invert", "UnipolarFloat", acc, 0,
            UnipolarFloat_invert(acc))

UnipolarMul(R) ==
    /\ ty = "UnipolarFloat"
    /\ \E rhs \in UnipolarOperands(R) :
           Call("UnipolarFloat * UnipolarFloat", "UnipolarFloat", acc, rhs,
                UnipolarFloat_mul(acc, rhs))

UnipolarMulAssign(R) ==
    /\ ty = "UnipolarFloat"
    /\ \E rhs \in UnipolarOperands(R) :
           Call("UnipolarFloat *= UnipolarFloat", "UnipolarFloat", acc, rhs,
                UnipolarFloat_mul_assign(acc, rhs))

UnipolarSub(R) ==
    /\ ty = "UnipolarFloat"
    /\ \E rhs \in UnipolarOperands(R) :
           Call("UnipolarFloat - UnipolarFloat", "UnipolarFloat", acc, rhs,
                UnipolarFloat_sub(acc, rhs))

UnipolarAdd(R) ==
    /\ ty = "UnipolarFloat"
    /\ \E rhs \in UnipolarOperands(R) :
           Call("UnipolarFloat + UnipolarFloat", "UnipolarFloat", acc, rhs,
                UnipolarFloat_add(acc, rhs))

UnipolarAddAssign(R) ==
    /\ ty = "UnipolarFloat"
    /\ \E rhs \in UnipolarOperands(R) :
           Call("UnipolarFloat += UnipolarFloat", "UnipolarFloat", acc, rhs,
                UnipolarFloat_add_assign(acc, rhs))

UnipolarAddAssignF64(R) ==
    /\ ty = "UnipolarFloat"
    /\ \E rhs \in R :
           Call("UnipolarFloat += f64", "UnipolarFloat", acc, rhs,
                UnipolarFloat_add_assign_f64(acc, rhs))

(* BipolarFloat *)

BipolarNew(R) ==
    /\ op = "none"
    /\ \E v \in R :
           Call("BipolarFloat::new", "BipolarFloat", 0, v,
                BipolarFloat_new(v))

BipolarConst ==
    /\ op = "none"
    /\ \/ Call("BipolarFloat::ZERO", "BipolarFloat", 0, 0, BipolarFloat_ZERO)
       \/ Call("BipolarFloat::ONE", "BipolarFloat", 0, 0, BipolarFloat_ONE)
       \/ Call("BipolarFloat::default", "BipolarFloat", 0, 0, BipolarFloat_default)

BipolarAbs ==
    /\ ty = "BipolarFloat"
    /\ Call("BipolarFloat::abs", "UnipolarFloat", acc, 0,
            BipolarFloat_abs(acc))

BipolarInvert ==
    /\ ty = "BipolarFloat"
    /\ Call("BipolarFloat::invert", "BipolarFloat", acc, 0,
            BipolarFloat_invert(acc))

BipolarInvertIf ==
    /\ ty = "BipolarFloat"
    /\ \/ Call("BipolarFloat::invert_if(true)", "BipolarFloat", acc, 0,
               BipolarFloat_invert_if(acc, TRUE))
       \/ Call("BipolarFloat::invert_if(false)", "BipolarFloat", acc, 0,
               BipolarFloat_invert_if(acc, FALSE))

\* The held value is either operand: a BipolarFloat scaled by an operand, or a
\* UnipolarFloat scaling one.

BipolarMulUnipolar(R) ==
    /\ op = "none"
    /\ \/ /\ ty = "BipolarFloat"
          /\ \E rhs \in UnipolarOperands(R) :
                 Call("BipolarFloat * UnipolarFloat", "BipolarFloat", acc, rhs,
                      BipolarFloat_mul_unipolar(acc, rhs))
       \/ /\ ty = "UnipolarFloat"
          /\ \E lhs \in BipolarOperands(R) :
                 Call("BipolarFloat * UnipolarFloat", "BipolarFloat", lhs, acc,
                      BipolarFloat_mul_unipolar(lhs, acc))

BipolarMul(R) ==
    /\ ty = "BipolarFloat"
    /\ \E rhs \in BipolarOperands(R) :
           Call("BipolarFloat * BipolarFloat", "BipolarFloat", acc, rhs,
                BipolarFloat_mul(acc, rhs))

BipolarSub(R) ==
    /\ ty = "BipolarFloat"
    /\ \E rhs \in BipolarOperands(R) :
           Call("BipolarFloat - BipolarFloat", "BipolarFloat", acc, rhs,
                BipolarFloat_sub(acc, rhs))

BipolarAdd(R) ==
    /\ ty = "BipolarFloat"
    /\ \E rhs \in BipolarOperands(R) :
           Call("BipolarFloat + BipolarFloat", "BipolarFloat", acc, rhs,
                BipolarFloat_add(acc, rhs))

BipolarAddAssign(R) ==
    /\ ty = "BipolarFloat"
    /\ \E rhs \in BipolarOperands(R) :
           Call("BipolarFloat += BipolarFloat", "BipolarFloat", acc, rhs,
                BipolarFloat_add_assign(acc, rhs))

BipolarAddAssignF64(R) ==
    /\ ty = "BipolarFloat"
    /\ \E rhs \in R :
           Call("BipolarFloat += f64", "BipolarFloat", acc, rhs,
                BipolarFloat_add_assign_f64(acc, rhs))

(* Phase *)

PhaseNew(R) ==
    /\ op = "none"
    /\ \E v \in R : Call("Phase::new", "Phase", 0, v, Phase_new(v))

PhaseConst ==
    /\ op = "none"
    /\ \/ Call("Phase::ZERO", "Phase", 0, 0, Phase_ZERO)
       \/ Call("Phase::ONE", "Phase", 0, 0, Phase_ONE)
       \/ Call("Phase::default", "Phase", 0, 0, Phase_default)

PhaseAdd(R) ==
    /\ ty = "Phase"
    /\ \E rhs \in PhaseOperands(R) :
           Call("Phase + Phase", "Phase", acc, rhs,
                Phase_add(acc, rhs))

PhaseAddF64(R) ==
    /\ ty = "Phase"
    /\ \E rhs \in R :
           Call("Phase + f64", "Phase", acc, rhs,
                Phase_add_f64(acc, rhs))

PhaseAddAssign(R) ==
    /\ ty = "Phase"
    /\ \E rhs \in PhaseOperands(R) :
           Call("Phase += Phase", "Phase", acc, rhs,
                Phase_add_assign(acc, rhs))

PhaseAddAssignF64(R) ==
    /\ ty = "Phase"
    /\ \E rhs \in R :
           Call("Phase += f64", "Phase", acc, rhs,
                Phase_add_assign_f64(acc, rhs))

PhaseMulUnipolar(R) ==
    /\ op = "none"
    /\ \/ /\ ty = "Phase"
          /\ \E rhs \in UnipolarOperands(R) :
                 Call("Phase * UnipolarFloat", "Phase", acc, rhs,
                      Phase_mul_unipolar(acc, rhs))
       \/ /\ ty = "UnipolarFloat"
          /\ \E lhs \in PhaseOperands(R) :
                 Call("Phase * UnipolarFloat", "Phase", lhs, acc,
                      Phase_mul_unipolar(lhs, acc))

PhaseMulF64(R) ==
    /\ ty = "Phase"
    /\ \E rhs \in R :
           Call("Phase * f64", "Phase", acc, rhs,
                Phase_mul_f64(acc, rhs))

\* Phase / UnipolarFloat, the divisor taken from D.

PhaseDiv(R, D) ==
    /\ op = "none"
    /\ \/ /\ ty = "Phase"
          /\ \E rhs \in UnipolarOperands(R) \cap D :
                 Call("Phase / UnipolarFloat", "Phase", acc, rhs,
                      Phase_div(acc, rhs))
       \/ /\ ty = "UnipolarFloat" /\ acc \in D
          /\ \E lhs \in PhaseOperands(R) :
                 Call("Phase / UnipolarFloat", "Phase", lhs, acc,
                      Phase_div(lhs, acc))

\* Every constructor, constant and operator, over the raw arguments R and the
\* divisors D.
Calls(R, D) ==
    \/ UnipolarNew(R)
    \/ UnipolarConst
    \/ UnipolarInvert
    \/ UnipolarMul(R)
    \/ UnipolarMulAssign(R)
    \/ UnipolarSub(R)
    \/ UnipolarAdd(R)
    \/ UnipolarAddAssign(R)
    \/ UnipolarAddAssignF64(R)
    \/ BipolarNew(R)
    \/ BipolarConst
    \/ BipolarAbs
    \/ BipolarInvert
    \/ BipolarInvertIf
    \/ BipolarMulUnipolar(R)
    \/ BipolarMul(R)
    \/ BipolarSub(R)
    \/ BipolarAdd(R)
    \/ BipolarAddAssign(R)
    \/ BipolarAddAssignF64(R)
    \/ PhaseNew(R)
    \/ PhaseConst
    \/ PhaseAdd(R)
    \/ PhaseAddF64(R)
    \/ PhaseAddAssign(R)
    \/ PhaseAddAssignF64(R)
    \/ PhaseMulUnipolar(R)
    \/ PhaseMulF64(R)
    \/ PhaseDiv(R, D)

\* Any f64 as a raw argument, any UnipolarFloat as a divisor.
Next == Calls(F64, F64)

Spec == Init /\ [][Next]_vars

\* Finite raw arguments only, and no division by zero.
NextFinite == Calls(Finite, F64 \ {0})

SpecFinite == Init /\ [][NextFinite]_vars

-----------------------------------------------------------------------------
(* Decoding: the serde-derived Deserialize of the three newtypes *)

\* A number of a structured-data document decoded into a UnipolarFloat.
UnipolarDeserialize ==
    /\ op = "none"
    /\ \E n \in Finite :
           Call("UnipolarFloat::deserialize", "UnipolarFloat", 0, n,
                UnipolarFloat_deserialize(n))

BipolarDeserialize ==
    /\ op = "none"
    /\ \E n \in Finite :
           Call("BipolarFloat::deserialize", "BipolarFloat", 0, n,
                BipolarFloat_deserialize(n))

PhaseDeserialize ==
    /\ op = "none"
    /\ \E n \in Finite :
           Call("Phase::deserialize", "Phase", 0, n, Phase_deserialize(n))

NextDecode ==
    \/ UnipolarDeserialize
    \/ BipolarDeserialize
    \/ PhaseDeserialize

SpecDecode == Init /\ [][NextDecode]_vars

-----------------------------------------------------------------------------
(* Chains of Phase additions, with the exact sum kept beside the f64 one *)

\* Boundary crossings are counted up to MaxWraps.
MaxWraps == 2

\* The exact value n is an f64: computing it rounds nothing.
IsExact(n) == Abs(n) <= MaxFin /\ Representable(n)

\* Phase::new(v0) starts a chain (Phase::default() is the chain of v0 = 0.0).
SumNew ==
    /\ \E v \in Finite :
           /\ acc' = Phase_new(v)
           /\ sum' = v % OneN
           /\ exact' = IsExact(v % OneN)
    /\ wraps' = 0
    /\ ty' = "Phase"
    /\ UNCHANGED <<op, x, y>>

\* One more addition of the chain: the exact operand d, whether building the
\* operand rounded nothing, and the f64 result res.  The exact sum is kept up
\* to and including the first addition that rounds; from there on the chain
\* goes on untracked (sum = -1).
Accumulate(d, operandExact, res) ==
    /\ ty = "Phase"
    /\ ty' = ty
    /\ acc' = res
    /\ sum' = IF exact THEN (sum + d) % OneN ELSE -1
    /\ exact' = /\ exact
                /\ operandExact
                /\ IsExact(sum + d)
                /\ IsExact((sum + d) % OneN)
    /\ wraps' = IF ~exact THEN 0
                ELSE IF sum + d >= 0 /\ sum + d < OneN THEN wraps
                ELSE IF wraps < MaxWraps THEN wraps + 1
                ELSE wraps
    /\ UNCHANGED <<op, x, y>>

\* phase + Phase::new(d): the operand is wrapped before it is added.
SumAdd ==
    /\ ty = "Phase"
    /\ \E d \in Finite :
           Accumulate(d % OneN, IsExact(d % OneN),
                      Phase_add(acc, Phase_new(d)))

\* phase + d.
SumAddF64 ==
    /\ ty = "Phase"
    /\ \E d \in Finite : Accumulate(d, TRUE, Phase_add_f64(acc, d))

\* phase += Phase::new(d).
SumAddAssign ==
    /\ ty = "Phase"
    /\ \E d \in Finite :
           Accumulate(d % OneN, IsExact(d % OneN),
                      Phase_add_assign(acc, Phase_new(d)))

\* phase += d.
SumAddAssignF64 ==
    /\ ty = "Phase"
    /\ \E d \in Finite : Accumulate(d, TRUE, Phase_add_assign_f64(acc, d))

NextSum ==
    \/ SumNew
    \/ SumAdd
    \/ SumAddF64
    \/ SumAddAssign
    \/ SumAddAssignF64

SpecSum == Init /\ [][NextSum]_vars

-----------------------------------------------------------------------------
(* Properties *)

\* lo <= v <= hi as f64 comparisons: false of NaN.
Within(v, lo, hi) == FLe(lo, v) /\ FLe(v, hi)

\* n clamped into lo .. hi as an exact number, then rounded to f64.
Saturated(n, lo, hi) ==
    IF n < lo THEN lo ELSE IF n > hi THEN hi ELSE Round(n, 1)

\* C1: every UnipolarFloat the constructors, constants and operators produce,
\* the unclamped invert, *, *= and BipolarFloat::abs included, holds a number
\* v with 0.0 <= v <= 1.0.
UnipolarInRange == ty = "UnipolarFloat" => Within(acc, 0, OneN)

\* C1's case: an unclamped product of two values strictly inside (0, 1) that
\* had to be rounded.
UnipolarRoundedProduct ==
    /\ op = "UnipolarFloat * UnipolarFloat"
    /\ 0 < x /\ x < OneN /\ 0 < y /\ y < OneN
    /\ acc * OneN # x * y

\* C2: every BipolarFloat the constructors, constants and operators produce,
\* the unclamped invert, invert_if and both products included, holds a number
\* v with -1.0 <= v <= 1.0.
BipolarInRange == ty = "BipolarFloat" => Within(acc, -OneN, OneN)

\* C2's case: the unclamped product of the two extreme values, -1.0 * -1.0.
BipolarExtremeProduct ==
    /\ op = "BipolarFloat * BipolarFloat"
    /\ x = -OneN /\ y = -OneN
    /\ acc = OneN

\* C3: every Phase the constructors, constants and operators produce, raw
\* arguments finite and divisors non-zero, holds a number v with
\* 0.0 <= v <= 1.0.
PhaseInRange == ty = "Phase" => Within(acc, 0, OneN)

\* C4: a decoded number is normalised as the type's constructor normalises
\* it: the decoded value equals new(n).
DecodeNormalizes ==
    /\ op = "UnipolarFloat::deserialize" => acc = UnipolarFloat_new(y)
    /\ op = "BipolarFloat::deserialize" => acc = BipolarFloat_new(y)
    /\ op = "Phase::deserialize" => acc = Phase_new(y)

\* C5: the clamping constructors saturate to the nearest bound: new(v) is v
\* inside the range, the lower bound below it and the upper bound above it.
ClampSaturates ==
    /\ op = "UnipolarFloat::new" =>
        /\ Within(y, 0, OneN) => acc = y
        /\ FLt(y, 0) => acc = 0
        /\ FLt(OneN, y) => acc = OneN
    /\ op = "BipolarFloat::new" =>
        /\ Within(y, -OneN, OneN) => acc = y
        /\ FLt(y, -OneN) => acc = -OneN
        /\ FLt(OneN, y) => acc = OneN

\* C5's case: BipolarFloat::new of a finite value below -1.0.
ClampedFromBelow ==
    /\ op = "BipolarFloat::new"
    /\ IsFinite(y) /\ y < -OneN
    /\ acc = -OneN

\* C6 as stated: Phase::new of a finite v lies in [0.0, 1.0), Phase::new(v +
\* 1.0) == Phase::new(v), Phase::new(1.0) is 0.0 and Phase::ONE is 1.0.
PhaseNewHalfOpenPeriodic ==
    (op = "Phase::new" /\ IsFinite(y)) =>
        /\ FLe(0, acc) /\ FLt(acc, OneN)
        /\ Phase_new(FAdd(y, OneN)) = acc
        /\ Phase_new(OneN) = 0
        /\ Phase_ONE = OneN

\* C6 amended: Phase::new of a finite v lies in the closed [0.0, 1.0], and is
\* 1.0 only for a negative v; Phase::new(v + 1.0) == Phase::new(v) whenever
\* v + 1.0 is exact; Phase::new(1.0) is 0.0 and Phase::ONE is 1.0.
PhaseNewClosedPeriodic ==
    (op = "Phase::new" /\ IsFinite(y)) =>
        /\ Within(acc, 0, OneN)
        /\ acc = OneN => y < 0
        /\ IsExact(y + OneN) => Phase_new(FAdd(y, OneN)) = acc
        /\ Phase_new(OneN) = 0
        /\ Phase_ONE = OneN

\* C6's case: a negative v whose remainder rounds up to 1.0.
PhaseNewReachesOne ==
    /\ op = "Phase::new"
    /\ IsFinite(y) /\ y < 0
    /\ acc = OneN

\* C7: + and - on the clamped types saturate: the result is the exact sum or
\* difference clamped into the type's range (as an f64), and a += rhs leaves
\* new(a.val() + rhs), the value + gives.
SaturatingAddSub ==
    /\ op = "UnipolarFloat + UnipolarFloat" => acc = Saturated(x + y, 0, OneN)
    /\ op = "UnipolarFloat - UnipolarFloat" => acc = Saturated(x - y, 0, OneN)
    /\ op = "BipolarFloat + BipolarFloat" =>
        acc = Saturated(x + y, -OneN, OneN)
    /\ op = "BipolarFloat - BipolarFloat" =>
        acc = Saturated(x - y, -OneN, OneN)
    /\ op = "UnipolarFloat += UnipolarFloat" =>
        acc = UnipolarFloat_new(FAdd(x, y)) /\ acc = Saturated(x + y, 0, OneN)
    /\ op = "BipolarFloat += BipolarFloat" =>
        /\ acc = BipolarFloat_new(FAdd(x, y))
        /\ acc = Saturated(x + y, -OneN, OneN)
    /\ op = "UnipolarFloat += f64" =>
        /\ acc = UnipolarFloat_new(FAdd(x, y))
        /\ IsFinite(y) => acc = Saturated(x + y, 0, OneN)
    /\ op = "BipolarFloat += f64" =>
        /\ acc = BipolarFloat_new(FAdd(x, y))
        /\ IsFinite(y) => acc = Saturated(x + y, -OneN, OneN)

\* C7's case: a BipolarFloat difference below -1.0 that saturated.
SaturatedDifference ==
    /\ op = "BipolarFloat - BipolarFloat"
    /\ x - y < -OneN
    /\ acc = -OneN

\* C8 as stated: after Phase::new(v0) and additions that crossed the 0.0/1.0
\* boundary, the inner value is the euclidean remainder modulo 1.0 of the
\* exact sum v0 + d_1 + .. + d_n.
PhaseSumIsExactRemainder ==
    (ty = "Phase" /\ sum >= 0 /\ wraps >= 1) => acc = sum

\* C8 amended: it is that remainder whenever no f64 addition of the chain
\* rounded (each running sum and each remainder taken is an f64).
PhaseSumExactWhenUnrounded == (ty = "Phase" /\ exact) => acc = sum

\* C8's case: an unrounded chain that crossed the 0.0/1.0 boundary more than
\* once and ended strictly inside the range.
PhaseSumWrappedTwice ==
    /\ ty = "Phase"
    /\ exact
    /\ wraps >= 2
    /\ sum > 0
    /\ acc = sum

\* C9 as stated: p * u of a Phase p in range lies in [0.0, 1.0) and equals
\* Phase::new(p.val() * u.val()).
PhaseScaleHalfOpen ==
    (op = "Phase * UnipolarFloat" /\ Within(x, 0, OneN)) =>
        /\ FLe(0, acc) /\ FLt(acc, OneN)
        /\ acc = Phase_new(FMul(x, y))

\* C9 amended: p * u of a Phase p in range lies in the closed [0.0, 1.0], is
\* 1.0 only as 1.0 * 1.0, and below 1.0 equals Phase::new(p.val() * u.val()).
PhaseScaleClosed ==
    (op = "Phase * UnipolarFloat" /\ Within(x, 0, OneN)) =>
        /\ Within(acc, 0, OneN)
        /\ acc = OneN => (x = OneN /\ y = OneN)
        /\ FLt(acc, OneN) => acc = Phase_new(FMul(x, y))

\* C9's case: Phase::ONE scaled by UnipolarFloat::ONE.
PhaseOneScaledByOne ==
    /\ op = "Phase * UnipolarFloat"
    /\ x = Phase_ONE /\ y = UnipolarFloat_ONE
    /\ acc = OneN

\* C10: p / u returns a Phase holding a number in [0.0, 1.0] for every
\* divisor, UnipolarFloat::ZERO included.
PhaseDivInRange == op = "Phase / UnipolarFloat" => Within(acc, 0, OneN)

=============================================================================
